---- MODULE Spec2Model ----
(***************************************************************************)
(* A model of luigi/parameter.py: the Parameter descriptor (its declared   *)
(* default, the default read from the configuration, the value parsed      *)
(* from the input), the class-wide declaration counter, and the            *)
(* TimeDeltaParameter grammar.                                             *)
(*                                                                         *)
(* Python strings are sequences of one-character strings, so that strip,   *)
(* split, replace, int() and the regular expressions are computed          *)
(* character by character.  A Python value is a record                     *)
(*   [kind, n, s, items]                                                   *)
(* (kind: its type; n: the number of an int, a bool or a timedelta in      *)
(* seconds; s: the characters of a str or the message of an exception;     *)
(* items: the elements of a tuple or a list).  A raised exception is the   *)
(* value an operator returns, its kind the exception's class.              *)
(***************************************************************************)
EXTENDS Integers, Sequences, FiniteSets, TLC

----------------------------------------------------------------------------
(* Bounds of the model *)

\* the number of descriptors constructed in one behaviour
MaxConstructions == 3
\* the length of the texts drawn character by character
MaxTextLen == 4
\* the number of raw strings of an input sequence
MaxInputLen == 2
\* the number of threads that construct descriptors concurrently
MaxThreads == 2
\* the length of the duration texts drawn character by character
MaxDurationLen == 3

----------------------------------------------------------------------------
(* Python values *)

V(kind, n, s, items) == [kind |-> kind, n |-> n, s |-> s, items |-> items]

\* _no_default = object(): equal to itself only
no_default == V("_no_default", 0, <<>>, <<>>)

PyNone == V("NoneType", 0, <<>>, <<>>)
PyStr(s) == V("str", 0, s, <<>>)
PyInt(n) == V("int", n, <<>>, <<>>)
PyBool(b) == V("bool", IF b THEN 1 ELSE 0, <<>>, <<>>)
PyTuple(items) == V("tuple", 0, <<>>, items)
PyList(items) == V("list", 0, <<>>, items)
timedelta(seconds) == V("timedelta", seconds, <<>>, <<>>)

ExceptionKinds ==
    {"ParameterException", "MissingParameterException",
     "UnknownConfigException", "ValueError", "KeyError"}

Raise(kind, msg) == V(kind, 0, msg, <<>>)
IsExc(v) == v.kind \in ExceptionKinds

\* Python's truth value of x ("not x" is its negation)
Truthy(x) ==
    CASE x.kind = "NoneType" -> FALSE
      [] x.kind \in {"int", "bool", "timedelta"} -> x.n # 0
      [] x.kind = "str" -> x.s # <<>>
      [] x.kind \in {"tuple", "list"} -> x.items # <<>>
      [] OTHER -> TRUE

----------------------------------------------------------------------------
(* str methods *)

Whitespace == {" ", "\n", "\t"}
DigitChars == {"0", "1", "2", "3", "4", "5", "6", "7", "8", "9"}

DigitVal(c) ==
    CASE c = "0" -> 0 [] c = "1" -> 1 [] c = "2" -> 2 [] c = "3" -> 3
      [] c = "4" -> 4 [] c = "5" -> 5 [] c = "6" -> 6 [] c = "7" -> 7
      [] c = "8" -> 8 [] c = "9" -> 9

RECURSIVE lstrip(_)
lstrip(s) ==
    IF s # <<>> /\ Head(s) \in Whitespace THEN lstrip(Tail(s)) ELSE s

RECURSIVE rstrip(_)
rstrip(s) ==
    IF s # <<>> /\ s[Len(s)] \in Whitespace
    THEN rstrip(SubSeq(s, 1, Len(s) - 1))
    ELSE s

\* str.strip()
strip(s) == rstrip(lstrip(s))

\* str.split(sep) for a one-character sep: the pieces between the separators,
\* always at least one piece
RECURSIVE split(_, _)
split(s, sep) ==
    IF \A i \in 1..Len(s) : s[i] # sep
    THEN <<s>>
    ELSE LET i == CHOOSE k \in 1..Len(s) :
                      s[k] = sep /\ \A j \in 1..(k - 1) : s[j] # sep
         IN  <<SubSeq(s, 1, i - 1)>> \o split(SubSeq(s, i + 1, Len(s)), sep)

\* str.replace(old, new) for one-character old and new
replace(s, old, new) ==
    [i \in 1..Len(s) |-> IF s[i] = old THEN new ELSE s[i]]

LowerOf(c) ==
    CASE c = "T" -> "t" [] c = "R" -> "r" [] c = "U" -> "u" [] c = "E" -> "e"
      [] c = "F" -> "f" [] c = "A" -> "a" [] c = "L" -> "l" [] c = "S" -> "s"
      [] OTHER -> c

\* str.lower()
lower(s) == [i \in 1..Len(s) |-> LowerOf(s[i])]

RECURSIVE DecimalValue(_)
DecimalValue(ds) ==
    IF ds = <<>> THEN 0
    ELSE 10 * DecimalValue(SubSeq(ds, 1, Len(ds) - 1)) + DigitVal(ds[Len(ds)])

\* int(s) of a str: surrounding whitespace and one sign are allowed, then
\* decimal digits only; anything else raises ValueError
int(s) ==
    LET t == strip(s)
        signed == t # <<>> /\ Head(t) \in {"-", "+"}
        ds == IF signed THEN Tail(t) ELSE t
    IN  IF ds # <<>> /\ \A i \in 1..Len(ds) : ds[i] \in DigitChars
        THEN PyInt(IF signed /\ Head(t) = "-"
                   THEN 0 - DecimalValue(ds) ELSE DecimalValue(ds))
        ELSE Raise("ValueError", s)

----------------------------------------------------------------------------
(* The configuration: configuration.get_config() *)

\* a default_from_config argument: None, or a dict with some of the keys
\* 'section' and 'name'
NoConfigRef == [is_none |-> TRUE, keys |-> {}, section |-> <<>>, name |-> <<>>]
ConfigRef(keys, section, name) ==
    [is_none |-> FALSE, keys |-> keys, section |-> section, name |-> name]

\* conf._config_paths
ConfigPaths ==
    <<"/","e","t","c","/","l","u","i","g","i","/","c","l","i","e","n","t",".","c","f","g",
      ","," ","c","l","i","e","n","t",".","c","f","g">>

UnknownConfigMessage(section, name) ==
    <<"C","o","u","l","d","n","'","t"," ","f","i","n","d"," ","v","a","l","u","e"," ",
      "f","o","r"," ","s","e","c","t","i","o","n","=">> \o section
    \o <<" ","n","a","m","e","=">> \o name
    \o <<"."," ","S","e","a","r","c","h"," ","c","o","n","f","i","g"," ",
         "f","i","l","e","s",":"," ","'">> \o ConfigPaths \o <<"'">>

\* Parameter._get_default_from_config(safe): conf is the store, a function
\* from the <<section, name>> pairs it holds to their raw text
get_default_from_config(self, conf, safe) ==
    LET section == self.default_from_config.section
        name == self.default_from_config.name
    IN  IF <<section, name>> \in DOMAIN conf
        THEN PyStr(conf[<<section, name>>])
        ELSE IF safe
             THEN PyNone
             ELSE Raise("UnknownConfigException",
                        UnknownConfigMessage(section, name))

----------------------------------------------------------------------------
(* The coercers: parse of Parameter and of its subclasses *)

BooleanTable(s) ==
    CASE s = <<"t","r","u","e">> -> PyBool(TRUE)
      [] s = <<"f","a","l","s","e">> -> PyBool(FALSE)
      [] OTHER -> Raise("KeyError", s)

\* self.parse(x) for x a str
parse(cls, x) ==
    CASE cls = "Parameter" -> x
      [] cls = "IntParameter" -> int(x.s)
      [] cls = "BooleanParameter" -> BooleanTable(lower(x.s))

\* tuple(self.parse(p) for p in ps): the first exception raised ends it
RECURSIVE ParseEach(_, _, _)
ParseEach(cls, ps, done) ==
    IF ps = <<>> THEN PyTuple(done)
    ELSE LET v == parse(cls, Head(ps))
         IN  IF IsExc(v) THEN v ELSE ParseEach(cls, Tail(ps), Append(done, v))

----------------------------------------------------------------------------
(* Parameter *)

\* line 50 without "and not is_list"
init_is_boolean_kept(is_boolean, is_list) == is_boolean

\* line 50: self.is_boolean
init_is_boolean(is_boolean, is_list) == is_boolean /\ ~is_list

\* line 53 never true: the check of global parameters left out
init_global_unchecked(a) == FALSE

\* line 53: a global parameter without a default
init_global_without_default(a) ==
    a.is_global /\ a.default = no_default /\ a.default_from_config.is_none

\* line 57 never true: the check of the two defaults left out
init_both_unchecked(a) == FALSE

\* line 57: both a default and a default_from_config
init_both_defaults(a) ==
    a.default # no_default /\ ~a.default_from_config.is_none

\* line 59: a default_from_config without 'section' or without 'name'
init_bad_config_ref(a) ==
    /\ ~a.default_from_config.is_none
    /\ \/ "section" \notin a.default_from_config.keys
       \/ "name" \notin a.default_from_config.keys

\* Parameter.__init__ up to line 61: the exception it raises, or None.
\* BooleanParameter.__init__ passes is_boolean=True
init_check(a) ==
    IF init_global_without_default(a)
    THEN Raise("ParameterException",
               <<"G","l","o","b","a","l"," ","p","a","r","a","m","e","t","e","r","s"," ",
                 "n","e","e","d"," ","d","e","f","a","u","l","t"," ","v","a","l","u","e","s">>)
    ELSE IF init_both_defaults(a)
    THEN Raise("ParameterException",
               <<"C","a","n"," ","o","n","l","y"," ","s","p","e","c","i","f","y"," ",
                 "e","i","t","h","e","r"," ","a"," ","d","e","f","a","u","l","t"," ",
                 "o","r"," ","a"," ","d","e","f","a","u","l","t","_","f","r","o","m","_",
                 "c","o","n","f","i","g">>)
    ELSE IF init_bad_config_ref(a)
    THEN Raise("ParameterException",
               <<"d","e","f","a","u","l","t","_","f","r","o","m","_","c","o","n","f","i","g",
                 " ","m","u","s","t"," ","b","e"," ","a"," ","h","a","s","h"," ",
                 "c","o","n","t","a","i","n","i","n","g"," ","e","n","t","r","i","e","s"," ",
                 "f","o","r"," ","s","e","c","t","i","o","n"," ","a","n","d"," ",
                 "n","a","m","e">>)
    ELSE PyNone

\* the fields __init__ sets; counter is the class counter it reads at line 63
init_fields(a, counter) ==
    [cls |-> a.cls,
     default |-> a.default,
     is_list |-> a.is_list,
     is_boolean |-> init_is_boolean(a.is_boolean \/ a.cls = "BooleanParameter",
                                    a.is_list),
     is_global |-> a.is_global,
     significant |-> a.significant,
     description |-> a.description,
     default_from_config |-> a.default_from_config,
     counter |-> counter]

\* has_default that looks at the default slot only
has_default_slot_only(self, conf) == self.default # no_default

\* Parameter.has_default
has_default(self, conf) ==
    IF ~self.default_from_config.is_none
    THEN get_default_from_config(self, conf, TRUE) # PyNone
    ELSE self.default # no_default

\* line 96 without the strip of the whole text
default_lines_unstripped(value) ==
    LET ps == split(value, "\n")
    IN  [i \in 1..Len(ps) |-> PyStr(strip(ps[i]))]

\* the lines of a list default read from the configuration (line 96)
default_lines(value) ==
    LET ps == split(strip(value), "\n")
    IN  [i \in 1..Len(ps) |-> PyStr(strip(ps[i]))]

\* default that asks the configuration before it looks at the slot
default_config_first(self, conf) ==
    IF self.default = no_default /\ self.default_from_config.is_none
    THEN Raise("MissingParameterException",
               <<"N","o"," ","d","e","f","a","u","l","t"," ",
                 "s","p","e","c","i","f","i","e","d">>)
    ELSE IF ~self.default_from_config.is_none
    THEN LET value == get_default_from_config(self, conf, FALSE)
         IN  IF IsExc(value) THEN value
             ELSE IF self.is_list
             THEN ParseEach(self.cls, default_lines(value.s), <<>>)
             ELSE parse(self.cls, value)
    ELSE self.default

\* Parameter.default
default(self, conf) ==
    IF self.default = no_default /\ self.default_from_config.is_none
    THEN Raise("MissingParameterException",
               <<"N","o"," ","d","e","f","a","u","l","t"," ",
                 "s","p","e","c","i","f","i","e","d">>)
    ELSE IF self.default # no_default
    THEN self.default
    ELSE LET value == get_default_from_config(self, conf, FALSE)
         IN  IF IsExc(value) THEN value
             ELSE IF self.is_list
             THEN ParseEach(self.cls, default_lines(value.s), <<>>)
             ELSE parse(self.cls, value)

\* Parameter.set_default
set_default(self, value) == [self EXCEPT !.default = value]

\* the message of line 118
MissingValueMessage(param_name) ==
    <<"N","o"," ","v","a","l","u","e"," ","f","o","r"," ","'">> \o param_name
    \o <<"'"," ","(">> \o <<"-","-">> \o replace(param_name, "_", "-")
    \o <<")"," ","s","u","b","m","i","t","t","e","d"," ","a","n","d"," ","n","o"," ",
         "d","e","f","a","u","l","t"," ","v","a","l","u","e"," ","h","a","s"," ",
         "b","e","e","n"," ","a","s","s","i","g","n","e","d",".">>

\* parse_from_input that prefers the default to the input
parse_from_input_default_first(self, conf, param_name, x) ==
    IF ~Truthy(x) \/ has_default(self, conf)
    THEN IF has_default(self, conf) THEN default(self, conf)
         ELSE IF self.is_boolean THEN PyBool(FALSE)
         ELSE IF self.is_list THEN PyList(<<>>)
         ELSE Raise("MissingParameterException", MissingValueMessage(param_name))
    ELSE IF self.is_list
    THEN ParseEach(self.cls, x.items, <<>>)
    ELSE parse(self.cls, x)

\* Parameter.parse_from_input
parse_from_input(self, conf, param_name, x) ==
    IF ~Truthy(x)
    THEN IF has_default(self, conf) THEN default(self, conf)
         ELSE IF self.is_boolean THEN PyBool(FALSE)
         ELSE IF self.is_list THEN PyList(<<>>)
         ELSE Raise("MissingParameterException", MissingValueMessage(param_name))
    ELSE IF self.is_list
    THEN ParseEach(self.cls, x.items, <<>>)
    ELSE parse(self.cls, x)

----------------------------------------------------------------------------
(* The state *)

VARIABLES
    config,             \* the configuration store: <<section, name>> -> raw text
    Parameter_counter,  \* the class attribute Parameter.counter
    obj,                \* the descriptor in use: <<>> before the first one, else <<self>>
    op,                 \* the last call: its name, its arguments and what it returned or raised
    pc,                 \* per thread: where it is in Parameter.__init__
    began,              \* per thread: how many descriptors were complete when its __init__ began
    loaded,             \* per thread: the Parameter.counter it read for "+= 1"
    self_counter,       \* per thread: the self.counter of the descriptor it constructs
    constructed,        \* the descriptors the threads completed, in order of completion
    td_input,           \* TimeDeltaParameter.parse: its input
    td_pc,              \* TimeDeltaParameter.parse: the line it is at
    td_result           \* TimeDeltaParameter.parse: its local "result", then what it returns

descriptor_vars == <<config, obj, op>>
thread_vars == <<pc, began, loaded, self_counter, constructed>>
td_vars == <<td_input, td_pc, td_result>>
vars == <<config, Parameter_counter, obj, op, pc, began, loaded, self_counter,
          constructed, td_input, td_pc, td_result>>

----------------------------------------------------------------------------
(* The inputs *)

Classes == {"Parameter", "IntParameter", "BooleanParameter"}

Section == <<"c">>
Key == <<"k">>

\* the default_from_config arguments: None, dicts that lack a key, a full one
ConfigRefs ==
    {NoConfigRef,
     ConfigRef({}, <<>>, <<>>),
     ConfigRef({"section"}, Section, <<>>),
     ConfigRef({"section", "name"}, Section, Key)}

\* default arguments, and the values set_default is given
DefaultValues == {PyNone, PyStr(<<>>), PyInt(0), PyBool(FALSE), PyStr(<<"v">>)}

\* the raw texts the store may hold under the key
StoreTexts ==
    {<<>>, <<"1">>, <<"x">>, <<"T","r","u","e">>, <<"1","\n","2">>}

EmptyStore == [k \in {} |-> <<>>]
StoreWith(text) == [k \in {<<Section, Key>>} |-> text]
Stores == {EmptyStore} \cup {StoreWith(t) : t \in StoreTexts}

\* the constructor's arguments; BooleanParameter passes is_boolean itself
InitArgs ==
    {a \in [cls : Classes,
            default : {no_default} \cup DefaultValues,
            is_list : BOOLEAN,
            is_boolean : BOOLEAN,
            is_global : BOOLEAN,
            significant : {TRUE},
            description : {PyNone},
            default_from_config : ConfigRefs] :
        a.cls = "BooleanParameter" => ~a.is_boolean}

NoArgs ==
    [cls |-> "Parameter", default |-> no_default, is_list |-> FALSE,
     is_boolean |-> FALSE, is_global |-> FALSE, significant |-> TRUE,
     description |-> PyNone, default_from_config |-> NoConfigRef]

ParamNames == {<<"n">>, <<"a","_","b","_","c">>}

\* what the caller passes for a parameter that was not given
FalsyInputs == {PyNone, PyStr(<<>>), PyList(<<>>)}

\* one raw string
RawStrings == {<<"1">>, <<"2">>, <<"x">>, <<"F","A","L","S","E">>}

\* raw input of a scalar parameter
ScalarInputs == {PyStr(s) : s \in RawStrings}

\* raw input of a list parameter
ListInputs ==
    {PyList(<<PyStr(<<"1">>)>>),
     PyList(<<PyStr(<<"2">>), PyStr(<<"1">>), PyStr(<<"2">>)>>),
     PyList(<<PyStr(<<"1">>), PyStr(<<"x">>)>>)}

Call(name, args, value, param_name, result) ==
    [name |-> name, args |-> args, value |-> value, param_name |-> param_name,
     result |-> result]

NoCall == Call("", NoArgs, PyNone, <<>>, PyNone)

----------------------------------------------------------------------------
(* The calls on a descriptor, one thread *)

\* p = Cls(**a), the declaration of the descriptor: once it succeeded the
\* calls below are made on p
Construct(a) ==
    /\ obj = <<>>
    /\ LET raised == init_check(a)
       IN  IF IsExc(raised)
           THEN /\ op' = Call("__init__", a, PyNone, <<>>, raised)
                /\ UNCHANGED <<obj, Parameter_counter>>
           ELSE /\ obj' = <<init_fields(a, Parameter_counter)>>
                /\ Parameter_counter' = Parameter_counter + 1
                /\ op' = Call("__init__", a, PyNone, <<>>, PyNone)
    /\ UNCHANGED <<config, thread_vars, td_vars>>

\* p.set_default(value)
SetDefault(value) ==
    /\ obj # <<>>
    /\ obj' = <<set_default(obj[1], value)>>
    /\ op' = Call("set_default", NoArgs, value, <<>>, PyNone)
    /\ UNCHANGED <<config, Parameter_counter, thread_vars, td_vars>>

\* p.has_default
HasDefault ==
    /\ obj # <<>>
    /\ op' = Call("has_default", NoArgs, PyNone, <<>>,
                  PyBool(has_default(obj[1], config)))
    /\ UNCHANGED <<config, Parameter_counter, obj, thread_vars, td_vars>>

\* p.default
Default ==
    /\ obj # <<>>
    /\ op' = Call("default", NoArgs, PyNone, <<>>, default(obj[1], config))
    /\ UNCHANGED <<config, Parameter_counter, obj, thread_vars, td_vars>>

\* p.parse_from_input(param_name, x): a list parameter is given a sequence
\* of strings, any other one string
ParseFromInput(param_name, x) ==
    /\ obj # <<>>
    /\ Truthy(x) => (obj[1].is_list <=> x.kind = "list")
    /\ op' = Call("parse_from_input", NoArgs, x, param_name,
                  parse_from_input(obj[1], config, param_name, x))
    /\ UNCHANGED <<config, Parameter_counter, obj, thread_vars, td_vars>>

InitOther ==
    /\ pc = [t \in 1..MaxThreads |-> "idle"]
    /\ began = [t \in 1..MaxThreads |-> 0]
    /\ loaded = [t \in 1..MaxThreads |-> 0]
    /\ self_counter = [t \in 1..MaxThreads |-> 0]
    /\ constructed = <<>>
    /\ td_input = <<>>
    /\ td_pc = "idle"
    /\ td_result = PyNone

Init ==
    /\ config \in Stores
    /\ Parameter_counter = 0
    /\ obj = <<>>
    /\ op = NoCall
    /\ InitOther

Next ==
    \/ \E a \in InitArgs : Construct(a)
    \/ \E value \in DefaultValues : SetDefault(value)
    \/ HasDefault
    \/ Default
    \/ \E n \in ParamNames, x \in FalsyInputs \cup ScalarInputs \cup ListInputs :
          ParseFromInput(n, x)

Spec == Init /\ [][Next]_vars

----------------------------------------------------------------------------
(* Properties of the calls on a descriptor *)

Contains(s, sub) ==
    \E i \in 1..(Len(s) - Len(sub) + 1) : SubSeq(s, i, i + Len(sub) - 1) = sub

\* the flag-style hint of a name: "--", then the name with "-" for each "_"
FlagHint(param_name) ==
    <<"-", "-">> \o [i \in 1..Len(param_name) |->
                        IF param_name[i] = "_" THEN "-" ELSE param_name[i]]

HasConfigRef == obj # <<>> /\ ~obj[1].default_from_config.is_none
HasLiteral == obj # <<>> /\ obj[1].default # no_default
KeyInStore == <<Section, Key>> \in DOMAIN config
FalsyCall == op.name = "parse_from_input" /\ op.value \in FalsyInputs

\* C1: parse_from_input with a falsy input returns the default when
\* has_default is true; otherwise False for a boolean descriptor, an empty
\* list for a list descriptor (a list of booleans included: its is_boolean
\* is false), and otherwise raises MissingParameterException with a message
\* that holds "--" and the name with hyphens for underscores.  A
\* default_from_config whose key the store lacks counts as no default: the
\* call takes these branches and never raises UnknownConfigException.
C1_FalsyInputPrecedence ==
    FalsyCall =>
        LET self == obj[1]
            fallback ==
                IF self.cls = "BooleanParameter" /\ self.is_list
                THEN op.result = PyList(<<>>)
                ELSE IF self.is_boolean THEN op.result = PyBool(FALSE)
                ELSE IF self.is_list THEN op.result = PyList(<<>>)
                ELSE /\ op.result.kind = "MissingParameterException"
                     /\ Contains(op.result.s, FlagHint(op.param_name))
        IN  /\ self.is_list => ~self.is_boolean
            /\ IF HasConfigRef
               THEN IF KeyInStore
                    THEN op.result = default(self, config)
                    ELSE fallback /\ op.result.kind # "UnknownConfigException"
               ELSE IF HasLiteral
                    THEN op.result = self.default
                    ELSE fallback

\* C1 witness: the store lacks the key of the default_from_config, and the
\* call raised MissingParameterException with the hint --a-b-c
C1_Witness ==
    /\ FalsyCall
    /\ HasConfigRef /\ ~KeyInStore
    /\ op.param_name = <<"a","_","b","_","c">>
    /\ op.result.kind = "MissingParameterException"
    /\ Contains(op.result.s, <<"-","-","a","-","b","-","c">>)

OnlyConfigRef == HasConfigRef /\ ~HasLiteral

\* C2 as stated: with only default_from_config set, has_default is whether
\* the store holds the key; default raises UnknownConfigException when it
\* does not, and otherwise returns the raw text parsed by the coercer.
C2_AsStated ==
    OnlyConfigRef =>
        /\ op.name = "has_default" => op.result = PyBool(KeyInStore)
        /\ op.name = "default" =>
              IF KeyInStore
              THEN op.result = parse(obj[1].cls, PyStr(config[<<Section, Key>>]))
              ELSE op.result.kind = "UnknownConfigException"

\* what default returns for a list descriptor from the raw text: the
\* stripped text is cut at the newlines and every piece, stripped, is
\* parsed; the first piece that does not parse raises
ListOfLines(cls, raw, result) ==
    LET ps == split(strip(raw), "\n")
        vs == [i \in 1..Len(ps) |-> parse(cls, PyStr(strip(ps[i])))]
        bad == {i \in 1..Len(ps) : IsExc(vs[i])}
    IN  IF bad = {}
        THEN result = PyTuple(vs)
        ELSE result = vs[CHOOSE i \in bad : \A j \in bad : i <= j]

\* C2, amended: as stated for a descriptor that is not a list; for a list
\* descriptor default returns the tuple of the lines of the raw text, each
\* parsed by the coercer.
C2_OnlyConfigRef ==
    OnlyConfigRef =>
        /\ op.name = "has_default" => op.result = PyBool(KeyInStore)
        /\ op.name = "default" =>
              IF ~KeyInStore
              THEN op.result.kind = "UnknownConfigException"
              ELSE IF obj[1].is_list
              THEN ListOfLines(obj[1].cls, config[<<Section, Key>>], op.result)
              ELSE op.result = parse(obj[1].cls, PyStr(config[<<Section, Key>>]))

\* C2 witness: an IntParameter list read two lines of the store
C2_Witness ==
    /\ OnlyConfigRef /\ KeyInStore
    /\ obj[1].is_list /\ obj[1].cls = "IntParameter"
    /\ op.name = "default"
    /\ op.result = PyTuple(<<PyInt(1), PyInt(2)>>)

\* C3: when the default slot holds a value (from the constructor or from
\* the last set_default; None, "", 0 and False are values), default returns
\* that value, whatever default_from_config and the store are.
C3_LiteralDefaultReturned ==
    /\ op.name = "set_default" => HasLiteral /\ obj[1].default = op.value
    /\ (op.name = "__init__" /\ op.result = PyNone) =>
           obj[1].default = op.args.default
    /\ (op.name = "default" /\ HasLiteral) => op.result = obj[1].default

\* C3 witness: default returned the None that set_default installed over a
\* default_from_config whose key the store lacks
C3_Witness ==
    /\ op.name = "default"
    /\ HasConfigRef /\ ~KeyInStore
    /\ obj[1].default = PyNone
    /\ op.result = PyNone

BothDefaults == HasConfigRef /\ HasLiteral

\* C4 as stated: constructing with a default and a default_from_config
\* raises, and no descriptor ever has both.
C4_AsStated ==
    /\ (op.name = "__init__" /\ op.args.default # no_default
            /\ ~op.args.default_from_config.is_none) =>
           op.result.kind = "ParameterException"
    /\ ~BothDefaults

\* C4, amended: constructing with a default and a default_from_config
\* raises, so a descriptor just constructed has at most one of them;
\* has_default, default and parse_from_input change neither; a descriptor
\* comes to have both only by set_default on one that has a
\* default_from_config.
C4_BothOnlyBySetDefault ==
    /\ [](/\ (op.name = "__init__" /\ op.args.default # no_default
                  /\ ~op.args.default_from_config.is_none) =>
                 op.result.kind = "ParameterException" /\ obj = <<>>
          /\ (op.name = "__init__" /\ op.result = PyNone) => ~BothDefaults)
    /\ [][/\ (BothDefaults' /\ ~BothDefaults) =>
                 op'.name = "set_default" /\ HasConfigRef
          /\ op'.name \in {"has_default", "default", "parse_from_input"} =>
                 obj' = obj]_vars

\* C4 witness: the constructor refused a default together with a complete
\* default_from_config
C4_Witness ==
    /\ op.name = "__init__"
    /\ op.args.default = PyInt(0)
    /\ op.args.default_from_config = ConfigRef({"section", "name"}, Section, Key)
    /\ ~op.args.is_global
    /\ op.result.kind = "ParameterException"
    /\ obj = <<>>

GlobalInit == op.name = "__init__" /\ op.args.is_global

\* C5 as stated: constructing a global descriptor raises when it has no
\* resolvable default (no default, and no default_from_config whose key the
\* store holds), and a constructed global descriptor has a resolvable one.
C5_AsStated ==
    GlobalInit =>
        LET resolvable ==
                \/ op.args.default # no_default
                \/ /\ ~op.args.default_from_config.is_none
                   /\ <<op.args.default_from_config.section,
                        op.args.default_from_config.name>> \in DOMAIN config
        IN  /\ ~resolvable => op.result.kind = "ParameterException"
            /\ op.result = PyNone => resolvable

\* C5, amended: constructing a global descriptor raises when it is given
\* neither a default nor a default_from_config; a constructed global
\* descriptor has a default or a default_from_config that names section
\* and name, whether or not the store holds that key.
C5_GlobalNeedsDeclaredDefault ==
    GlobalInit =>
        /\ (op.args.default = no_default /\ op.args.default_from_config.is_none) =>
               /\ op.result.kind = "ParameterException"
               /\ obj = <<>>
        /\ op.result = PyNone =>
               /\ obj # <<>> /\ obj[1].is_global
               /\ \/ HasLiteral
                  \/ /\ HasConfigRef
                     /\ obj[1].default_from_config.keys = {"section", "name"}

\* C5 witness: a global descriptor was constructed with a default_from_config
\* whose key the store lacks
C5_Witness ==
    /\ GlobalInit
    /\ op.result = PyNone
    /\ OnlyConfigRef
    /\ ~KeyInStore

DefaultFails(self) ==
    default(self, config).kind \in
        {"MissingParameterException", "UnknownConfigException"}

\* C10: has_default is true exactly when default does not raise
\* MissingParameterException or UnknownConfigException; after set_default(v)
\* on a descriptor whose default_from_config key the store lacks,
\* has_default is true and parse_from_input with a falsy input returns v.
C10_HasDefaultAgreesWithDefault ==
    /\ op.name = "has_default" =>
           (op.result = PyBool(TRUE) <=> ~DefaultFails(obj[1]))
    /\ (FalsyCall /\ BothDefaults /\ ~KeyInStore) => op.result = obj[1].default

----------------------------------------------------------------------------
(* Parameter.__init__ in several threads: lines 63 and 64 *)

Threads == 1..MaxThreads

InProgress == {t \in Threads : pc[t] # "idle"}

\* a thread calls Parameter(...) with arguments that lines 53 to 60 accept
BeginInit(t) ==
    /\ pc[t] = "idle"
    /\ Len(constructed) + Cardinality(InProgress) < MaxConstructions
    /\ began' = [began EXCEPT ![t] = Len(constructed)]
    /\ pc' = [pc EXCEPT ![t] = "line63"]
    /\ UNCHANGED <<Parameter_counter, loaded, self_counter, constructed,
                   descriptor_vars, td_vars>>

\* line 63: self.counter = Parameter.counter
ReadCounter(t) ==
    /\ pc[t] = "line63"
    /\ self_counter' = [self_counter EXCEPT ![t] = Parameter_counter]
    /\ pc' = [pc EXCEPT ![t] = "line64"]
    /\ UNCHANGED <<Parameter_counter, began, loaded, constructed,
                   descriptor_vars, td_vars>>

\* line 64, Parameter.counter += 1: the load of Parameter.counter
LoadCounter(t) ==
    /\ pc[t] = "line64"
    /\ loaded' = [loaded EXCEPT ![t] = Parameter_counter]
    /\ pc' = [pc EXCEPT ![t] = "line64_store"]
    /\ UNCHANGED <<Parameter_counter, began, self_counter, constructed,
                   descriptor_vars, td_vars>>

\* line 64, Parameter.counter += 1: the store of the sum; __init__ returns
StoreCounter(t) ==
    /\ pc[t] = "line64_store"
    /\ Parameter_counter' = loaded[t] + 1
    /\ constructed' = Append(constructed,
                             [counter |-> self_counter[t], began |-> began[t]])
    /\ pc' = [pc EXCEPT ![t] = "idle"]
    /\ UNCHANGED <<began, loaded, self_counter, descriptor_vars, td_vars>>

InitThreads ==
    /\ config = EmptyStore
    /\ Parameter_counter = 0
    /\ obj = <<>>
    /\ op = NoCall
    /\ InitOther

NextThreads ==
    \E t \in Threads :
        \/ BeginInit(t)
        \/ ReadCounter(t)
        \/ LoadCounter(t)
        \/ StoreCounter(t)

SpecThreads == InitThreads /\ [][NextThreads]_vars

\* C6: under any interleaving, every constructed descriptor has its own
\* counter, a descriptor whose construction finished before another began
\* has the smaller one, and Parameter.counter is the number of descriptors
\* constructed (no increment is lost).
C6_CounterAtomic ==
    /\ \A i, j \in 1..Len(constructed) :
           i # j => constructed[i].counter # constructed[j].counter
    /\ \A i, j \in 1..Len(constructed) :
           i <= constructed[j].began =>
               constructed[i].counter < constructed[j].counter
    /\ InProgress = {} => Parameter_counter = Len(constructed)

----------------------------------------------------------------------------
(* Regular expressions, as re.match matches them *)

\* the patterns the two grammars are made of
Lit(c) == [op |-> "lit", c |-> c, key |-> <<>>, rs |-> <<>>]
Digits(key) == [op |-> "digits", c |-> "", key |-> key, rs |-> <<>>]
Cat(rs) == [op |-> "cat", c |-> "", key |-> <<>>, rs |-> rs]
Alt(r1, r2) == [op |-> "alt", c |-> "", key |-> <<>>, rs |-> <<r1, r2>>]
Opt(r) == [op |-> "opt", c |-> "", key |-> <<>>, rs |-> <<r>>]
Word(cs) == Cat([i \in 1..Len(cs) |-> Lit(cs[i])])

RECURSIVE DigitRun(_, _)
DigitRun(s, i) ==
    IF i <= Len(s) /\ s[i] \in DigitChars THEN 1 + DigitRun(s, i + 1) ELSE 0

\* every way pattern r matches s from position i on, given the groups g set
\* so far, in the order a backtracking matcher tries them (greedy first):
\* each the position after the match and the groups it set
RECURSIVE Match(_, _, _, _)
RECURSIVE MatchSeq(_, _, _, _)
RECURSIVE Continue(_, _, _)
Match(r, s, i, g) ==
    CASE r.op = "lit" ->
             IF i <= Len(s) /\ s[i] = r.c
             THEN <<[pos |-> i + 1, groups |-> g]>>
             ELSE <<>>
      [] r.op = "digits" ->
             LET n == DigitRun(s, i)
             IN  [k \in 1..n |->
                     [pos |-> i + (n - k + 1),
                      groups |-> [g EXCEPT ![r.key] = SubSeq(s, i, i + n - k)]]]
      [] r.op = "cat" -> MatchSeq(r.rs, s, i, g)
      [] r.op = "alt" -> Match(r.rs[1], s, i, g) \o Match(r.rs[2], s, i, g)
      [] r.op = "opt" -> Match(r.rs[1], s, i, g) \o <<[pos |-> i, groups |-> g]>>

MatchSeq(rs, s, i, g) ==
    IF rs = <<>> THEN <<[pos |-> i, groups |-> g]>>
    ELSE Continue(Match(Head(rs), s, i, g), Tail(rs), s)

Continue(ms, rs, s) ==
    IF ms = <<>> THEN <<>>
    ELSE MatchSeq(rs, s, Head(ms).pos, Head(ms).groups) \o Continue(Tail(ms), rs, s)

----------------------------------------------------------------------------
(* TimeDeltaParameter *)

weeks == <<"w","e","e","k","s">>
days == <<"d","a","y","s">>
hours == <<"h","o","u","r","s">>
minutes == <<"m","i","n","u","t","e","s">>
seconds == <<"s","e","c","o","n","d","s">>

\* line 210
keys == <<weeks, days, hours, minutes, seconds>>
KeySet == {keys[i] : i \in 1..Len(keys)}

\* no group has taken part in the match
NoGroups == [k \in KeySet |-> <<>>]

UpperOf(c) ==
    CASE c = "w" -> "W" [] c = "d" -> "D" [] c = "h" -> "H"
      [] c = "m" -> "M" [] c = "s" -> "S"

\* datetime.timedelta(**{key: 1}) in seconds
UnitSeconds(key) ==
    CASE key = weeks -> 604800
      [] key = days -> 86400
      [] key = hours -> 3600
      [] key = minutes -> 60
      [] key = seconds -> 1

RECURSIVE SumSeconds(_, _)
SumSeconds(kwargs, ks) ==
    IF ks = <<>> THEN 0
    ELSE kwargs[Head(ks)] * UnitSeconds(Head(ks)) + SumSeconds(kwargs, Tail(ks))

\* TimeDeltaParameter.apply_regex: re.match anchors the pattern at the start
\* of the input only; groupdict(default="0")
apply_regex(regex, input) ==
    LET ms == Match(regex, input, 1, NoGroups)
    IN  IF ms = <<>> THEN PyNone
        ELSE LET groupdict == [k \in KeySet |->
                                  IF Head(ms).groups[k] = <<>> THEN <<"0">>
                                  ELSE Head(ms).groups[k]]
                 kwargs == [k \in KeySet |-> int(groupdict[k]).n]
                 has_val == \E k \in KeySet : kwargs[k] # 0
             IN  IF has_val THEN timedelta(SumSeconds(kwargs, keys)) ELSE PyNone

\* line 202: "(?P<%s>\d+)%s" % (key, key[0].upper())
field(key) == Cat(<<Digits(key), Lit(UpperOf(key[1]))>>)

\* line 204: "(%s)?" % field(key)
optional_field(key) == Opt(field(key))

\* line 206
Iso8601Regex ==
    Cat(<<Lit("P"),
          Alt(field(weeks),
              Cat(<<optional_field(days),
                    Opt(Cat(<<Lit("T"), optional_field(hours),
                              optional_field(minutes),
                              optional_field(seconds)>>))>>))>>)

\* line 213, one key: "((?P<%s>\d+) ?%s(%s)?(%s)? ?)?" % (k, k[0], k[1:-1], k[-1])
SimpleField(k) ==
    Opt(Cat(<<Digits(k), Opt(Lit(" ")), Lit(k[1]),
              Opt(Word(SubSeq(k, 2, Len(k) - 1))), Opt(Lit(k[Len(k)])),
              Opt(Lit(" "))>>))

\* line 213
SimpleRegex == Cat([i \in 1..Len(keys) |-> SimpleField(keys[i])])

\* TimeDeltaParameter.parseIso8601
parseIso8601(input) == apply_regex(Iso8601Regex, input)

\* TimeDeltaParameter.parseSimple
parseSimple(input) == apply_regex(SimpleRegex, input)

\* lines 218 and 219 without the second grammar
parse_second_skipped(result, input) == result

\* lines 218 and 219: if not result: result = self.parseSimple(input)
parse_second(result, input) ==
    IF ~Truthy(result) THEN parseSimple(input) ELSE result

\* lines 220 to 223
parse_return(result, input) ==
    IF Truthy(result) THEN result
    ELSE Raise("ParameterException",
               <<"I","n","v","a","l","i","d"," ","t","i","m","e"," ",
                 "d","e","l","t","a"," ","-"," ","c","o","u","l","d"," ",
                 "n","o","t"," ","p","a","r","s","e"," ">> \o input)

DurationChars == {"P", "T", "W", "D", "H", "0", "1", "w", "d", "s", " "}

\* the texts of length n over chars
RECURSIVE TextsOver(_, _)
TextsOver(chars, n) ==
    IF n = 0 THEN {<<>>}
    ELSE {<<c>> \o t : c \in chars, t \in TextsOver(chars, n - 1)}

TextsUpTo(chars, n) == UNION {TextsOver(chars, k) : k \in 0..n}

DurationExamples ==
    {<<"P","1","W">>,
     <<"1"," ","w","e","e","k">>,
     <<"P","0","D">>,
     <<"1","h","3","0","m">>,
     <<"1"," ","h"," ","3","0"," ","m">>,
     <<"P","1","D","T","2","H">>,
     <<"P","T","1","H","3","0","M">>,
     <<"1"," ","w","e","e","k"," ","2"," ","d","a","y","s">>,
     <<"2"," ","d","a","y","s"," ","1"," ","w","e","e","k">>,
     <<"P","1","W","x">>,
     <<"P","0","W","1","D">>}

DurationInputs == TextsUpTo(DurationChars, MaxDurationLen) \cup DurationExamples

\* line 217: result = self.parseIso8601(input)
ParseFirst ==
    /\ td_pc = "line217"
    /\ td_result' = parseIso8601(td_input)
    /\ td_pc' = "line218"
    /\ UNCHANGED <<td_input, Parameter_counter, descriptor_vars, thread_vars>>

\* lines 218 and 219
ParseSecond ==
    /\ td_pc = "line218"
    /\ td_result' = parse_second(td_result, td_input)
    /\ td_pc' = "line220"
    /\ UNCHANGED <<td_input, Parameter_counter, descriptor_vars, thread_vars>>

\* lines 220 to 223: parse returns or raises
ParseReturn ==
    /\ td_pc = "line220"
    /\ td_result' = parse_return(td_result, td_input)
    /\ td_pc' = "done"
    /\ UNCHANGED <<td_input, Parameter_counter, descriptor_vars, thread_vars>>

InitTimeDelta ==
    /\ config = EmptyStore
    /\ Parameter_counter = 0
    /\ obj = <<>>
    /\ op = NoCall
    /\ pc = [t \in 1..MaxThreads |-> "idle"]
    /\ began = [t \in 1..MaxThreads |-> 0]
    /\ loaded = [t \in 1..MaxThreads |-> 0]
    /\ self_counter = [t \in 1..MaxThreads |-> 0]
    /\ constructed = <<>>
    /\ td_input \in DurationInputs
    /\ td_pc = "line217"
    /\ td_result = PyNone

NextTimeDelta == ParseFirst \/ ParseSecond \/ ParseReturn

SpecTimeDelta == InitTimeDelta /\ [][NextTimeDelta]_vars

\* the duration of the first match of a grammar, in seconds: 0 when the
\* grammar does not match or every field of the match is zero
GrammarSeconds(regex, input) ==
    LET ms == Match(regex, input, 1, NoGroups)
        number(k) == DecimalValue(Head(ms).groups[k])
    IN  IF ms = <<>> THEN 0
        ELSE 7 * 24 * 3600 * number(weeks) + 24 * 3600 * number(days)
             + 3600 * number(hours) + 60 * number(minutes) + number(seconds)

EndsWith(s, tail) ==
    Len(s) >= Len(tail) /\ SubSeq(s, Len(s) - Len(tail) + 1, Len(s)) = tail

OneWeek == timedelta(7 * 24 * 3600)

\* C7: parse returns the duration of the ISO 8601 grammar when that is not
\* zero, else the duration of the shorthand grammar when that is not zero,
\* else raises with the input in the message; a match whose fields are all
\* zero counts as no match.  parse("P1W") = parse("1 week") = 7 days, and
\* parse("P0D") raises.
C7_FirstNonZeroGrammar ==
    td_pc = "done" =>
        /\ IF GrammarSeconds(Iso8601Regex, td_input) # 0
           THEN td_result = timedelta(GrammarSeconds(Iso8601Regex, td_input))
           ELSE IF GrammarSeconds(SimpleRegex, td_input) # 0
           THEN td_result = timedelta(GrammarSeconds(SimpleRegex, td_input))
           ELSE /\ td_result.kind = "ParameterException"
                /\ EndsWith(td_result.s, td_input)
        /\ td_input = <<"P","1","W">> => td_result = OneWeek
        /\ td_input = <<"1"," ","w","e","e","k">> => td_result = OneWeek
        /\ td_input = <<"P","0","D">> => td_result.kind = "ParameterException"

\* C7 witness: "1 week" is no ISO 8601 duration and parsed as shorthand
C7_Witness ==
    /\ td_pc = "done"
    /\ td_input = <<"1"," ","w","e","e","k">>
    /\ Match(Iso8601Regex, td_input, 1, NoGroups) = <<>>
    /\ td_result = OneWeek

----------------------------------------------------------------------------
(* List parameters: the input sequences *)

\* the constructor's arguments of a list parameter that is not global
ListArgs ==
    {a \in InitArgs :
        /\ a.is_list /\ ~a.is_global /\ ~a.is_boolean
        /\ a.default \in {no_default, PyNone, PyStr(<<"v">>)}
        /\ a.default_from_config \in
               {NoConfigRef, ConfigRef({"section", "name"}, Section, Key)}}

RECURSIVE SeqsOver(_, _)
SeqsOver(S, n) ==
    IF n = 0 THEN {<<>>}
    ELSE {<<x>> \o t : x \in S, t \in SeqsOver(S, n - 1)}

\* the sequences of one to MaxInputLen raw strings
InputSequences ==
    {PyList(xs) : xs \in UNION {SeqsOver(ScalarInputs, n) : n \in 1..MaxInputLen}}

InitListInput ==
    /\ config \in {EmptyStore, StoreWith(<<"1">>)}
    /\ Parameter_counter = 0
    /\ obj = <<>>
    /\ op = NoCall
    /\ InitOther

NextListInput ==
    \/ \E a \in ListArgs : Construct(a)
    \/ \E value \in {PyNone, PyStr(<<"v">>)} : SetDefault(value)
    \/ \E x \in InputSequences : ParseFromInput(<<"n">>, x)

SpecListInput == InitListInput /\ [][NextListInput]_vars

\* C8: for a list descriptor and a non-empty sequence of raw strings,
\* parse_from_input returns the elements parsed one by one: as many, in the
\* order of the input, duplicates kept (an element that does not parse
\* raises); the default and the store play no part, even when there is a
\* default.
C8_ListInputParsedInOrder ==
    (op.name = "parse_from_input" /\ obj[1].is_list /\ Truthy(op.value)) =>
        LET xs == op.value.items
            bad == {i \in 1..Len(xs) : IsExc(parse(obj[1].cls, xs[i]))}
        IN  IF bad = {}
            THEN /\ op.result.kind = "tuple"
                 /\ Len(op.result.items) = Len(xs)
                 /\ \A i \in 1..Len(xs) :
                        op.result.items[i] = parse(obj[1].cls, xs[i])
            ELSE op.result =
                     parse(obj[1].cls, xs[CHOOSE i \in bad : \A j \in bad : i <= j])

\* C8 witness: an IntParameter list with a default in the store was given
\* ["2", "1"] and returned (2, 1)
C8_Witness ==
    /\ op.name = "parse_from_input"
    /\ obj[1].is_list /\ obj[1].cls = "IntParameter"
    /\ HasConfigRef /\ KeyInStore
    /\ op.value = PyList(<<PyStr(<<"2">>), PyStr(<<"1">>)>>)
    /\ op.result = PyTuple(<<PyInt(2), PyInt(1)>>)

----------------------------------------------------------------------------
(* List parameters: the default read from the configuration *)

LineChars == {"1", " ", "\n"}

ListConfigArgs ==
    {a \in InitArgs :
        /\ a.is_list /\ ~a.is_global /\ ~a.is_boolean
        /\ a.default = no_default
        /\ a.default_from_config = ConfigRef({"section", "name"}, Section, Key)}

InitListDefault ==
    /\ config \in {StoreWith(t) : t \in TextsUpTo(LineChars, MaxTextLen)}
    /\ Parameter_counter = 0
    /\ obj = <<>>
    /\ op = NoCall
    /\ InitOther

NextListDefault ==
    \/ \E a \in ListConfigArgs : Construct(a)
    \/ HasDefault
    \/ Default

SpecListDefault == InitListDefault /\ [][NextListDefault]_vars

\* the first exception of vs, or the tuple of vs
TupleOrFirstRaise(vs) ==
    LET bad == {i \in 1..Len(vs) : IsExc(vs[i])}
    IN  IF bad = {} THEN PyTuple(vs)
        ELSE vs[CHOOSE i \in bad : \A j \in bad : i <= j]

ListDefaultCall ==
    /\ op.name = "default"
    /\ OnlyConfigRef /\ KeyInStore
    /\ obj[1].is_list

\* the lines of the raw text, each trimmed
TrimmedLines(raw) ==
    LET ps == split(raw, "\n") IN [i \in 1..Len(ps) |-> strip(ps[i])]

\* C9 as stated: default of a list descriptor parses the non-empty trimmed
\* lines of the raw text, in order, and no blank line.
C9_AsStated ==
    ListDefaultCall =>
        LET lines == SelectSeq(TrimmedLines(config[<<Section, Key>>]),
                               LAMBDA l : l # <<>>)
        IN  op.result =
                TupleOrFirstRaise([i \in 1..Len(lines) |->
                                      parse(obj[1].cls, PyStr(lines[i]))])

\* C9, amended: default of a list descriptor parses the trimmed lines from
\* the first to the last line that is not blank, the blank lines between
\* them included, each as the empty string; a text with blank lines only
\* is parsed as one empty string.
C9_BlankLinesInsideKept ==
    ListDefaultCall =>
        LET lines == TrimmedLines(config[<<Section, Key>>])
            filled == {i \in 1..Len(lines) : lines[i] # <<>>}
            first == CHOOSE i \in filled : \A j \in filled : i <= j
            last == CHOOSE i \in filled : \A j \in filled : j <= i
            kept == IF filled = {} THEN << <<>> >> ELSE SubSeq(lines, first, last)
        IN  op.result =
                TupleOrFirstRaise([i \in 1..Len(kept) |->
                                      parse(obj[1].cls, PyStr(kept[i]))])

\* C9 witness: the blank line between two lines of an IntParameter list
\* reached int(), which raised
C9_Witness ==
    /\ ListDefaultCall
    /\ obj[1].cls = "IntParameter"
    /\ config[<<Section, Key>>] = <<"1", "\n", "\n", "1">>
    /\ op.result.kind = "ValueError"
    /\ op.result.s = <<>>

====
